---- MODULE Spec2Model ----
(***************************************************************************)
(* Model of src/main.py: the query-expansion and result-shaping pipeline   *)
(* of the ripgrep wrapper (generate_variations, rg_escape, fold_line,      *)
(* prepare_search_command, the batch handler search and the streaming      *)
(* handler search_stream with its generator).                              *)
(*                                                                         *)
(* Python strings are sequences of one-character strings; a Python set or  *)
(* a list(set(...)) is a set; a Python list is a sequence.                 *)
(***************************************************************************)
EXTENDS Integers, Sequences, FiniteSets, TLC

VARIABLES
    endpoint,       \* the route the request is posted to
    request,        \* SearchRequest: [queries, search_path, context, fold]
    spawn_ok,       \* environment: does launching rg succeed
    engine_out,     \* environment: the lines rg writes to its stdout
    all_variations, \* search_stream(): closure variable of generate()
    command_str,    \* search_stream(): closure variable of generate()
    batch_pc,       \* search(): "init" | "responded"
    batch_resp,     \* search(): the HTTP response
    batch_spawned,  \* search(): subprocess.run launched a child
    stream_pc,      \* search_stream()/generate(): position of the generator
    stream_out,     \* records yielded to the consumer so far
    stream_resp,    \* status of the HTTP response of search_stream()
    pos,            \* generate(): engine lines consumed from process.stdout
    matches_count,  \* generate(): local matches_count
    child,          \* Popen child: "none" | "running" | "exited" | "killed"
    reaped,         \* Popen child: process.wait() returned
    fn_pc,          \* pure-function harness: "idle" | "ready" | "called"
    fn_line,        \* fold_line argument line
    fn_vars,        \* fold_line argument query_variations
    fn_max,         \* fold_line argument max_len
    fn_query,       \* generate_variations argument query
    fn_type,        \* generate_variations argument query_type
    fn_result       \* value returned by the function under test

vars == <<endpoint, request, spawn_ok, engine_out, all_variations,
          command_str, batch_pc, batch_resp, batch_spawned, stream_pc,
          stream_out, stream_resp, pos, matches_count, child, reaped,
          fn_pc, fn_line, fn_vars, fn_max, fn_query, fn_type, fn_result>>

session_vars == <<endpoint, request, spawn_ok, engine_out, all_variations,
                  command_str, batch_pc, batch_resp, batch_spawned, stream_pc,
                  stream_out, stream_resp, pos, matches_count, child, reaped>>

inputs == <<endpoint, request, spawn_ok>>
batch_vars == <<batch_pc, batch_resp, batch_spawned>>
closure_vars == <<all_variations, command_str>>

fn_vars_all == <<fn_pc, fn_line, fn_vars, fn_max, fn_query, fn_type, fn_result>>

-----------------------------------------------------------------------------
(* Bounds of the model.                                                    *)

\* longest engine output (in lines) of a session
MaxLines == 3
\* longest line handed to fold_line by the function harness
MaxLineLen == 5
\* largest max_len handed to fold_line by the function harness
MaxFoldLen == 4
\* most digits of a phone query handed to generate_variations by the harness
MaxDigits == 11

-----------------------------------------------------------------------------
(* Python str primitives.                                                  *)

Min(a, b) == IF a < b THEN a ELSE b
Max(a, b) == IF a > b THEN a ELSE b

UpperLetters == <<"A","B","C","D","E","F","G","H","I","J","K","L","M",
                  "N","O","P","Q","R","S","T","U","V","W","X","Y","Z">>
LowerLetters == <<"a","b","c","d","e","f","g","h","i","j","k","l","m",
                  "n","o","p","q","r","s","t","u","v","w","x","y","z">>
Digits == {"0","1","2","3","4","5","6","7","8","9"}
Alpha == {UpperLetters[i] : i \in 1..26} \cup {LowerLetters[i] : i \in 1..26}
Whitespace == {" ", "\n", "\r", "\t"}

\* str.lower() on one character
LowerChar(c) ==
    IF \E i \in 1..26 : UpperLetters[i] = c
    THEN LowerLetters[CHOOSE i \in 1..26 : UpperLetters[i] = c]
    ELSE c

\* str.lower()
Lower(s) == [i \in 1..Len(s) |-> LowerChar(s[i])]

\* s[a:b] for 0 <= a, 0 <= b
Slice(s, a, b) == SubSeq(s, a + 1, Min(b, Len(s)))

\* s[a:] for 0 <= a
SliceFrom(s, a) == SubSeq(s, a + 1, Len(s))

\* s.startswith(p)
StartsWith(s, p) == Len(s) >= Len(p) /\ SubSeq(s, 1, Len(p)) = p

\* the 0-based offsets at which needle occurs in hay
Occurrences(hay, needle) ==
    {i \in 0..(Len(hay) - Len(needle)) :
        SubSeq(hay, i + 1, i + Len(needle)) = needle}

\* hay.find(needle): lowest offset of an occurrence, -1 when there is none
Find(hay, needle) ==
    IF Occurrences(hay, needle) = {} THEN -1
    ELSE CHOOSE i \in Occurrences(hay, needle) :
            \A j \in Occurrences(hay, needle) : i <= j

\* needle in hay
Contains(hay, needle) == Occurrences(hay, needle) # {}

\* s.rstrip(): trailing whitespace removed
RECURSIVE rstrip(_)
rstrip(s) ==
    IF Len(s) > 0 /\ s[Len(s)] \in Whitespace
    THEN rstrip(SubSeq(s, 1, Len(s) - 1))
    ELSE s

\* s.strip(): leading and trailing whitespace removed
RECURSIVE lstrip(_)
lstrip(s) ==
    IF Len(s) > 0 /\ s[1] \in Whitespace THEN lstrip(Tail(s)) ELSE s

strip(s) == rstrip(lstrip(s))

\* re.sub(r"\D", "", s): the digits of s, in order
OnlyDigits(s) == SelectSeq(s, LAMBDA c : c \in Digits)

\* s.replace(".", "")
DropDots(s) == SelectSeq(s, LAMBDA c : c # ".")

\* s.isalpha(): non-empty and all alphabetic
isalpha(s) == Len(s) > 0 /\ \A i \in 1..Len(s) : s[i] \in Alpha

\* s.split(): the maximal runs of non-whitespace characters, in order
RECURSIVE split(_)
split(s) ==
    IF Len(s) = 0 THEN <<>>
    ELSE IF s[1] \in Whitespace THEN split(Tail(s))
    ELSE LET stop == IF \E i \in 1..Len(s) : s[i] \in Whitespace
                     THEN (CHOOSE i \in 1..Len(s) :
                              /\ s[i] \in Whitespace
                              /\ \A j \in 1..(i - 1) : s[j] \notin Whitespace) - 1
                     ELSE Len(s)
         IN  <<SubSeq(s, 1, stop)>> \o split(SubSeq(s, stop + 1, Len(s)))

\* sep.join(parts)
RECURSIVE join(_, _)
join(sep, parts) ==
    IF Len(parts) = 0 THEN <<>>
    ELSE IF Len(parts) = 1 THEN parts[1]
    ELSE parts[1] \o sep \o join(sep, Tail(parts))

ELLIPSIS == <<".", ".", ".">>

-----------------------------------------------------------------------------
(* rg_escape                                                               *)

special == {"\\", ".", "^", "$", "*", "+", "?", "{", "}", "[", "]", "|", "(", ")"}

RECURSIVE rg_escape(_)
rg_escape(text) ==
    IF Len(text) = 0 THEN <<>>
    ELSE (IF text[1] \in special THEN <<"\\", text[1]>> ELSE <<text[1]>>)
         \o rg_escape(Tail(text))

-----------------------------------------------------------------------------
(* generate_variations                                                     *)

\* the phone branch, lines 75-89
phone_variations(query) ==
    LET digits == OnlyDigits(query)
        a == Slice(digits, 0, 3)
        b == Slice(digits, 3, 6)
        c == SliceFrom(digits, 6)
    IN  IF Len(digits) >= 10
        THEN {query,
              a \o <<"-">> \o b \o <<"-">> \o c,
              digits,
              <<"(">> \o a \o <<")">> \o b \o <<"-">> \o c,
              <<"(">> \o a \o <<")", " ">> \o b \o <<"-">> \o c,
              a \o <<".">> \o b \o <<".">> \o c,
              a \o <<" ">> \o b \o <<"-">> \o c}
        ELSE {query}

\* the name branch, lines 91-115
name_variations(query) ==
    LET parts == split(query)
        n == Len(parts)
        first == parts[1]
        last == parts[n]
        middle == join(<<" ">>, SubSeq(parts, 2, n - 1))
        mi == <<parts[2][1]>>
        sp == <<" ">>
        cm == <<",">>
        cs == <<",", " ">>
        dot == <<".">>
    IN  IF n = 2
        THEN {query,
              first \o sp \o last,
              last \o cs \o first,
              last \o cm \o first}
        ELSE IF n >= 3
        THEN {query,
              first \o sp \o last,
              last \o cs \o first,
              last \o cm \o first,
              first \o sp \o middle \o sp \o last,
              first \o sp \o mi \o dot \o sp \o last,
              first \o sp \o mi \o sp \o last,
              last \o cs \o first \o sp \o middle,
              last \o cs \o first \o sp \o mi,
              last \o cs \o first \o sp \o mi \o dot,
              first \o cm \o middle \o cm \o last,
              first \o cm \o mi \o cm \o last,
              last \o cm \o first \o cm \o middle,
              last \o cm \o first \o cm \o mi}
        ELSE {query}

\* the test of line 126 (and of lines 183-186): 2 or 3 alphabetic words
looks_like_name(query) ==
    LET words == split(query)
    IN  /\ Len(words) \in {2, 3}
        /\ \A i \in 1..Len(words) : isalpha(DropDots(words[i]))

\* the test of line 124: at least 7 digits, and more than half of the text
looks_like_phone(query) ==
    LET stripped == strip(query)
        digits_only == OnlyDigits(stripped)
    IN  /\ Len(digits_only) >= 7
        /\ 2 * Len(digits_only) > Max(Len(stripped), 1)

generate_variations(query, query_type) ==
    IF query_type = "phone" THEN phone_variations(query)
    ELSE IF query_type = "name" THEN name_variations(query)
    ELSE IF query_type = "email" THEN {query}
    ELSE IF query_type = "generic"
    THEN IF looks_like_phone(query) THEN phone_variations(query)
         ELSE IF looks_like_name(query) THEN name_variations(query)
         ELSE {query}
    ELSE {query}

-----------------------------------------------------------------------------
(* fold_line                                                               *)

\* fold_line with the window measured from the match, not from its start
fold_line_window_from_match(line, query_variations, max_len) ==
    IF Len(line) <= max_len THEN line
    ELSE
    LET line_lower == Lower(line)
        found == {idx \in {Find(line_lower, Lower(v)) : v \in query_variations} :
                     idx # -1 /\ idx < Len(line)}
        min_idx == IF found = {} THEN Len(line)
                   ELSE CHOOSE i \in found : \A j \in found : i <= j
        half_window == max_len \div 2
        start0 == Max(0, min_idx - half_window)
        end == Min(Len(line), min_idx + max_len)
        start == IF (end - start0) < max_len THEN Max(0, end - max_len)
                 ELSE start0
        prefix == IF start > 0 THEN ELLIPSIS ELSE <<>>
        suffix == IF end < Len(line) THEN ELLIPSIS ELSE <<>>
    IN  IF min_idx = Len(line)
        THEN Slice(line, 0, max_len) \o ELLIPSIS
        ELSE prefix \o Slice(line, start, end) \o suffix

fold_line(line, query_variations, max_len) ==
    IF Len(line) <= max_len THEN line
    ELSE
    LET line_lower == Lower(line)
        found == {idx \in {Find(line_lower, Lower(v)) : v \in query_variations} :
                     idx # -1 /\ idx < Len(line)}
        min_idx == IF found = {} THEN Len(line)
                   ELSE CHOOSE i \in found : \A j \in found : i <= j
        half_window == max_len \div 2
        start0 == Max(0, min_idx - half_window)
        end == Min(Len(line), start0 + max_len)
        start == IF (end - start0) < max_len THEN Max(0, end - max_len)
                 ELSE start0
        prefix == IF start > 0 THEN ELLIPSIS ELSE <<>>
        suffix == IF end < Len(line) THEN ELLIPSIS ELSE <<>>
    IN  IF min_idx = Len(line)
        THEN Slice(line, 0, max_len) \o ELLIPSIS
        ELSE prefix \o Slice(line, start, end) \o suffix

-----------------------------------------------------------------------------
(* The filesystem seen by Path.resolve() and Path.exists(): the            *)
(* environment of validate_search_path.                                    *)

P_etc == <<"/", "e", "t", "c">>
P_proc == <<"/", "p", "r", "o", "c">>
P_sys == <<"/", "s", "y", "s">>
P_dev == <<"/", "d", "e", "v">>
P_boot == <<"/", "b", "o", "o", "t">>
P_sbin == <<"/", "s", "b", "i", "n">>
P_etc_pw == <<"/", "e", "t", "c", "/", "p", "w">>
P_etcx == <<"/", "e", "t", "c", "x">>
P_data == <<"/", "d">>
P_link == <<"/", "l">>
P_none == <<"/", "n", "o">>

\* the paths a request may name
SearchPaths == {P_etc, P_etc_pw, P_etcx, P_data, P_link, P_none}

\* Path(search_path).resolve(): /l is a symbolic link to /sys
resolve(search_path) == IF search_path = P_link THEN P_sys ELSE search_path

\* resolved.exists()
exists(resolved) == resolved \in {P_etc, P_etc_pw, P_etcx, P_data, P_sys}

blocked_prefixes == <<P_etc, P_proc, P_sys, P_dev, P_boot, P_sbin>>

\* validate_search_path with the blocked prefixes tested on the path as
\* given, not on the resolved path
validate_search_path_unresolved(search_path) ==
    LET resolved == resolve(search_path)
        blocked == {i \in 1..Len(blocked_prefixes) :
                       \/ search_path = blocked_prefixes[i]
                       \/ StartsWith(search_path, blocked_prefixes[i] \o <<"/">>)}
    IN  IF ~exists(resolved)
        THEN [ok |-> FALSE, status |-> 400, path |-> resolved]
        ELSE IF blocked # {}
        THEN [ok |-> FALSE, status |-> 403, path |-> resolved]
        ELSE [ok |-> TRUE, status |-> 200, path |-> resolved]

\* validate_search_path: the canonical path, or the HTTPException raised
validate_search_path(search_path) ==
    LET resolved == resolve(search_path)
        blocked == {i \in 1..Len(blocked_prefixes) :
                       \/ resolved = blocked_prefixes[i]
                       \/ StartsWith(resolved, blocked_prefixes[i] \o <<"/">>)}
    IN  IF ~exists(resolved)
        THEN [ok |-> FALSE, status |-> 400, path |-> resolved]
        ELSE IF blocked # {}
        THEN [ok |-> FALSE, status |-> 403, path |-> resolved]
        ELSE [ok |-> TRUE, status |-> 200, path |-> resolved]

-----------------------------------------------------------------------------
(* prepare_search_command and format_command_for_display                   *)

\* iteration order of a Python set: some fixed order of its members
RECURSIVE SetToSeq(_)
SetToSeq(S) ==
    IF S = {} THEN <<>>
    ELSE LET x == CHOOSE y \in S : TRUE
         IN  <<x>> \o SetToSeq(S \ {x})

\* str(n) for a one-digit n
str(n) == <<CHOOSE d \in Digits : d = ToString(n)>>

\* is_name_query of lines 181-186
is_name_query(item) ==
    IF item.type = "generic" THEN looks_like_name(item.query)
    ELSE item.type = "name"

\* the two wildcard patterns of lines 189-195
name_wildcards(item) ==
    LET parts == split(item.query)
        ef == rg_escape(parts[1])
        el == rg_escape(parts[Len(parts)])
        sep == <<"[", ",", "\\", "s", "]", "+">>
        tok == <<"\\", "S", "+">>
    IN  <<ef \o sep \o tok \o sep \o el, el \o sep \o ef \o sep \o tok>>

\* all_variations after line 198: the pooled variations of every query
RECURSIVE pooled_variations(_)
pooled_variations(queries) ==
    IF Len(queries) = 0 THEN {}
    ELSE generate_variations(queries[1].query, queries[1].type)
         \cup pooled_variations(Tail(queries))

\* regex_patterns after the loop of lines 175-195
RECURSIVE regex_patterns(_)
regex_patterns(queries) ==
    IF Len(queries) = 0 THEN <<>>
    ELSE (IF is_name_query(queries[1]) THEN name_wildcards(queries[1]) ELSE <<>>)
         \o regex_patterns(Tail(queries))

\* -e <pattern> for every element of a sequence of patterns
RECURSIVE pattern_args(_)
pattern_args(pats) ==
    IF Len(pats) = 0 THEN <<>>
    ELSE <<<<"-", "e">>, pats[1]>> \o pattern_args(Tail(pats))

\* sequence mapped through rg_escape
RECURSIVE escape_all(_)
escape_all(seq) ==
    IF Len(seq) = 0 THEN <<>>
    ELSE <<rg_escape(seq[1])>> \o escape_all(Tail(seq))

MAX_COUNT == <<"1", "0", "0", "0", "0">>

\* prepare_search_command: (cmd, all_variations), or the HTTPException of
\* validate_search_path
prepare_search_command(req) ==
    LET v == validate_search_path(req.search_path)
        pooled == pooled_variations(req.queries)
        cmd == <<<<"r", "g">>, <<"-", "-", "j", "s", "o", "n">>, <<"-", "i">>,
                 <<"-", "-", "m", "a", "x", "-", "c", "o", "u", "n", "t">>,
                 MAX_COUNT>>
               \o pattern_args(escape_all(SetToSeq(pooled)))
               \o pattern_args(regex_patterns(req.queries))
               \o <<<<"-", "C">>, str(req.context)>>
               \o <<v.path>>
    IN  IF v.ok
        THEN [ok |-> TRUE, status |-> 200, cmd |-> cmd,
              all_variations |-> pooled]
        ELSE [ok |-> FALSE, status |-> v.status, cmd |-> <<>>,
              all_variations |-> {}]

\* format_command_for_display
RECURSIVE format_command_for_display(_)
format_command_for_display(cmd) ==
    IF Len(cmd) = 0 THEN <<>>
    ELSE IF cmd[1] = <<"-", "e">>
    THEN IF Len(cmd) >= 2
         THEN <<"-", "e", " ", "'">> \o cmd[2] \o <<"'">>
              \o (IF Len(cmd) > 2
                  THEN <<" ">> \o format_command_for_display(SubSeq(cmd, 3, Len(cmd)))
                  ELSE <<>>)
         ELSE <<"-", "e">>
    ELSE (IF Contains(cmd[1], <<" ">>)
          THEN <<"\"">> \o cmd[1] \o <<"\"">>
          ELSE cmd[1])
         \o (IF Len(cmd) > 1
             THEN <<" ">> \o format_command_for_display(Tail(cmd))
             ELSE <<>>)

-----------------------------------------------------------------------------
(* The engine's output: one line of rg --json per element.  A line is      *)
(* described by what json.loads and the subscripts of the handlers see:    *)
(* json: the line is valid JSON (an object); keys: the members present     *)
(* among data["type"], data["data"]["lines"]["text"],                      *)
(* data["data"]["path"]["text"] and data["data"]["line_number"].           *)

DEFAULT_MAX_LEN == 1000
CONTEXT_CAP == 1000

F_path == <<"/", "d", "/", "f">>
AllKeys == {"type", "text", "path", "line_number"}

\* the text of a matching line and of a context line, with their
\* terminators; both are shorter than DEFAULT_MAX_LEN and CONTEXT_CAP, so
\* the sessions exercise the translation and not the folding, which the
\* function harness below exercises on its own
T_match == <<"B", "o", ",", " ", "A", "l", " ", "Q", ".", "\r", "\n">>
T_context == <<"-", "-", " ", "\n">>

L_garbage == [json |-> FALSE, keys |-> {}, type |-> "", file |-> <<>>,
              line_number |-> 0, text |-> <<>>]
L_begin == [json |-> TRUE, keys |-> {"type", "path"}, type |-> "begin",
            file |-> F_path, line_number |-> 0, text |-> <<>>]
L_match == [json |-> TRUE, keys |-> AllKeys, type |-> "match",
            file |-> F_path, line_number |-> 7, text |-> T_match]
L_context == [json |-> TRUE, keys |-> AllKeys, type |-> "context",
              file |-> F_path, line_number |-> 8, text |-> T_context]
\* rg writes lines.bytes instead of lines.text for a line that is not UTF-8
L_bytes == [json |-> TRUE, keys |-> {"type", "path", "line_number"},
            type |-> "match", file |-> F_path, line_number |-> 3, text |-> <<>>]
\* a JSON object without a "type" member
L_untyped == [json |-> TRUE, keys |-> {}, type |-> "", file |-> <<>>,
              line_number |-> 0, text |-> <<>>]

EngineLines == {L_garbage, L_begin, L_match, L_context, L_bytes, L_untyped}

\* the sequences of at most n elements of S
RECURSIVE SeqsUpTo(_, _)
SeqsUpTo(S, n) ==
    IF n = 0 THEN {<<>>}
    ELSE LET shorter == SeqsUpTo(S, n - 1)
         IN  shorter \cup {Append(q, x) : q \in {r \in shorter : Len(r) = n - 1}, x \in S}

-----------------------------------------------------------------------------
(* Python exceptions and the except clauses that catch them                *)

\* the classes raised in the handlers that derive from Exception
\* (GeneratorExit derives from BaseException only)
ExceptionSubclasses == {"JSONDecodeError", "KeyError", "FileNotFoundError",
                        "HTTPException"}

\* except Exception:
caught_by_except_Exception(exc) == exc \in ExceptionSubclasses

\* except json.JSONDecodeError:
caught_by_except_JSONDecodeError(exc) == exc = "JSONDecodeError"

-----------------------------------------------------------------------------
(* Translation of one engine line: the body of the for loops.              *)

NoMatch == [line_number |-> 0, content |-> <<>>, is_match |-> FALSE,
            file_path |-> <<>>]

\* body of the loop of search(), lines 270-300: the exception raised ("" for
\* none), the new matches_count, and the Match appended, if any
batch_translate(line, fold, variations, count) ==
    IF ~line.json
    THEN [exc |-> "JSONDecodeError", count |-> count, emit |-> FALSE, rec |-> NoMatch]
    ELSE IF "type" \notin line.keys
    THEN [exc |-> "KeyError", count |-> count, emit |-> FALSE, rec |-> NoMatch]
    ELSE IF line.type = "match"
    THEN IF {"text", "path", "line_number"} \subseteq line.keys
         THEN [exc |-> "", count |-> count + 1, emit |-> TRUE,
               rec |-> [line_number |-> line.line_number,
                        content |-> IF fold
                                    THEN fold_line(rstrip(line.text), variations,
                                                   DEFAULT_MAX_LEN)
                                    ELSE rstrip(line.text),
                        is_match |-> TRUE,
                        file_path |-> line.file]]
         ELSE [exc |-> "KeyError", count |-> count + 1, emit |-> FALSE, rec |-> NoMatch]
    ELSE IF line.type = "context"
    THEN IF {"text", "path", "line_number"} \subseteq line.keys
         THEN [exc |-> "", count |-> count, emit |-> TRUE,
               rec |-> [line_number |-> line.line_number,
                        content |-> IF fold /\ Len(rstrip(line.text)) > CONTEXT_CAP
                                    THEN Slice(rstrip(line.text), 0, CONTEXT_CAP)
                                         \o ELLIPSIS
                                    ELSE rstrip(line.text),
                        is_match |-> FALSE,
                        file_path |-> line.file]]
         ELSE [exc |-> "KeyError", count |-> count, emit |-> FALSE, rec |-> NoMatch]
    ELSE [exc |-> "", count |-> count, emit |-> FALSE, rec |-> NoMatch]

NoEvent == [event |-> "", line_number |-> 0, content |-> <<>>, is_match |-> FALSE,
            file_path |-> <<>>, count |-> 0, total_matches |-> 0,
            command_executed |-> <<>>, variations |-> {}, line_index |-> 0]

\* body of the loop of generate(), lines 347-385: the exception raised, the
\* new matches_count, and the record yielded, if any
stream_translate(line, fold, variations, count) ==
    IF ~line.json
    THEN [exc |-> "JSONDecodeError", count |-> count, emit |-> FALSE, rec |-> NoEvent]
    ELSE IF "type" \notin line.keys
    THEN [exc |-> "KeyError", count |-> count, emit |-> FALSE, rec |-> NoEvent]
    ELSE IF line.type = "match"
    THEN IF {"text", "path", "line_number"} \subseteq line.keys
         THEN [exc |-> "", count |-> count + 1, emit |-> TRUE,
               rec |-> [NoEvent EXCEPT
                        !.event = "match",
                        !.line_number = line.line_number,
                        !.content = IF fold
                                    THEN fold_line(rstrip(line.text), variations,
                                                   DEFAULT_MAX_LEN)
                                    ELSE rstrip(line.text),
                        !.is_match = TRUE,
                        !.file_path = line.file,
                        !.count = count + 1]]
         ELSE [exc |-> "KeyError", count |-> count + 1, emit |-> FALSE, rec |-> NoEvent]
    ELSE IF line.type = "context"
    THEN IF {"text", "path", "line_number"} \subseteq line.keys
         THEN [exc |-> "", count |-> count, emit |-> TRUE,
               rec |-> [NoEvent EXCEPT
                        !.event = "context",
                        !.line_number = line.line_number,
                        !.content = IF fold /\ Len(rstrip(line.text)) > CONTEXT_CAP
                                    THEN Slice(rstrip(line.text), 0, CONTEXT_CAP)
                                         \o ELLIPSIS
                                    ELSE rstrip(line.text),
                        !.is_match = FALSE,
                        !.file_path = line.file,
                        !.count = count]]
         ELSE [exc |-> "KeyError", count |-> count, emit |-> FALSE, rec |-> NoEvent]
    ELSE [exc |-> "", count |-> count, emit |-> FALSE, rec |-> NoEvent]

-----------------------------------------------------------------------------
(* The requests and the initial state of a session.  A session is one      *)
(* request posted to /search or to /search/stream; the engine's output is  *)
(* chosen when the handler launches the engine.                            *)

Q_name == [query |-> <<"a", "l", " ", "b", "o">>, type |-> "generic"]
Q_phone == [query |-> <<"5", "5", "5", "-", "1", "2", "3", "-", "4", "5", "6", "7">>,
            type |-> "phone"]

QueryLists == {<<Q_name>>, <<Q_phone, Q_name>>}

Requests == [queries : QueryLists, search_path : SearchPaths, fold : BOOLEAN,
             context : {1}]

EngineOutputs == SeqsUpTo(EngineLines, MaxLines)

NoResponse == [status |-> 0, matches |-> <<>>, total_matches |-> 0,
               variations |-> {}, command_executed |-> <<>>]

FnIdle ==
    /\ fn_pc = "idle"
    /\ fn_line = <<>>
    /\ fn_vars = {}
    /\ fn_max = 0
    /\ fn_query = <<>>
    /\ fn_type = ""
    /\ fn_result = <<>>

SessionIdle ==
    /\ engine_out = <<>>
    /\ all_variations = {}
    /\ command_str = <<>>
    /\ batch_pc = "init"
    /\ batch_resp = NoResponse
    /\ batch_spawned = FALSE
    /\ stream_pc = "init"
    /\ stream_out = <<>>
    /\ stream_resp = 0
    /\ pos = 0
    /\ matches_count = 0
    /\ child = "none"
    /\ reaped = FALSE

Init ==
    /\ endpoint \in {"/search", "/search/stream"}
    /\ request \in Requests
    /\ spawn_ok \in BOOLEAN
    /\ SessionIdle
    /\ FnIdle

-----------------------------------------------------------------------------
(* search(): the batch handler, lines 253-313                              *)

\* the for loop of lines 269-302 with its except json.JSONDecodeError clause
RECURSIVE batch_loop(_, _, _, _, _)
batch_loop(lines, fold, variations, count, acc) ==
    IF Len(lines) = 0 THEN [exc |-> "", count |-> count, matches |-> acc]
    ELSE LET o == batch_translate(lines[1], fold, variations, count)
         IN  IF o.exc # "" /\ ~caught_by_except_JSONDecodeError(o.exc)
             THEN [exc |-> o.exc, count |-> o.count, matches |-> acc]
             ELSE batch_loop(Tail(lines), fold, variations, o.count,
                             IF o.emit THEN Append(acc, o.rec) ELSE acc)

\* the response of search(): the aggregate, or the HTTPException(500) of
\* the outer except Exception clause
search_response(req, launch_ok, lines) ==
    LET p == prepare_search_command(req)
        r == batch_loop(lines, req.fold, p.all_variations, 0, <<>>)
        exc == IF ~p.ok THEN "HTTPException"
               ELSE IF ~launch_ok THEN "FileNotFoundError"
               ELSE r.exc
    IN  IF exc = ""
        THEN [status |-> 200, matches |-> r.matches, total_matches |-> r.count,
              variations |-> p.all_variations,
              command_executed |-> format_command_for_display(p.cmd)]
        ELSE IF caught_by_except_Exception(exc)
        THEN [NoResponse EXCEPT !.status = 500]
        ELSE [NoResponse EXCEPT !.status = -1]

\* does search() get as far as subprocess.run, and does that launch a child
search_launches(req, launch_ok) == prepare_search_command(req).ok /\ launch_ok

search ==
    /\ endpoint = "/search"
    /\ batch_pc = "init"
    /\ batch_pc' = "responded"
    /\ batch_spawned' = search_launches(request, spawn_ok)
    /\ \E out \in EngineOutputs :
          /\ engine_out' = IF search_launches(request, spawn_ok) THEN out ELSE <<>>
          /\ batch_resp' = search_response(request, spawn_ok, engine_out')
    /\ UNCHANGED <<inputs, closure_vars, stream_pc, stream_out, stream_resp, pos,
                   matches_count, child, reaped>>
    /\ UNCHANGED fn_vars_all

-----------------------------------------------------------------------------
(* search_stream() and its generator generate(), lines 317-410             *)

preview_record ==
    [NoEvent EXCEPT !.event = "preview",
                    !.command_executed = command_str,
                    !.variations = all_variations]

done_record(count) ==
    [NoEvent EXCEPT !.event = "done",
                    !.total_matches = count,
                    !.command_executed = command_str,
                    !.variations = all_variations]

\* process.kill() on the child
kill(c) == IF c = "running" THEN "killed" ELSE c

\* lines 319-320 and 410: the command is prepared, the response is created;
\* an HTTPException of validate_search_path is the response
search_stream ==
    /\ endpoint = "/search/stream"
    /\ stream_pc = "init"
    /\ LET p == prepare_search_command(request)
       IN  IF p.ok
           THEN /\ stream_pc' = "created"
                /\ stream_resp' = 200
                /\ all_variations' = p.all_variations
                /\ command_str' = format_command_for_display(p.cmd)
           ELSE /\ stream_pc' = "rejected"
                /\ stream_resp' = p.status
                /\ UNCHANGED closure_vars
    /\ UNCHANGED <<inputs, engine_out, batch_vars, stream_out, pos,
                   matches_count, child, reaped>>
    /\ UNCHANGED fn_vars_all

\* the first next(): the generator runs to the yield of line 324
yield_preview ==
    /\ stream_pc = "created"
    /\ stream_out' = Append(stream_out, preview_record)
    /\ stream_pc' = "at_preview"
    /\ UNCHANGED <<inputs, engine_out, closure_vars, batch_vars, stream_resp,
                   pos, matches_count, child, reaped>>
    /\ UNCHANGED fn_vars_all

\* resumed after the preview: subprocess.Popen of line 335, outside any try,
\* then matches_count = 0
spawn ==
    /\ stream_pc = "at_preview"
    /\ IF spawn_ok
       THEN /\ child' = "running"
            /\ stream_pc' = "reading"
            /\ engine_out' \in EngineOutputs
       ELSE /\ stream_pc' = "aborted"
            /\ UNCHANGED <<child, engine_out>>
    /\ matches_count' = 0
    /\ UNCHANGED <<inputs, closure_vars, batch_vars, stream_out, stream_resp,
                   pos, reaped>>
    /\ UNCHANGED fn_vars_all

\* the child ends on its own (what it wrote stays in the pipe)
child_exit ==
    /\ child = "running"
    /\ child' = "exited"
    /\ UNCHANGED <<inputs, engine_out, closure_vars, batch_vars, stream_pc,
                   stream_out, stream_resp, pos, matches_count, reaped>>
    /\ UNCHANGED fn_vars_all

\* one iteration of for line in process.stdout, lines 346-387, with the
\* except clauses of lines 386 and 390-392 and the done yield of line 395
read_line ==
    /\ stream_pc = "reading"
    /\ pos < Len(engine_out)
    /\ LET o == stream_translate(engine_out[pos + 1], request.fold,
                                 all_variations, matches_count)
       IN  /\ pos' = pos + 1
           /\ matches_count' = o.count
           /\ IF o.exc = ""
              THEN /\ stream_out' = IF o.emit
                                    THEN Append(stream_out,
                                                [o.rec EXCEPT !.line_index = pos + 1])
                                    ELSE stream_out
                   /\ stream_pc' = IF o.emit THEN "at_record" ELSE "reading"
                   /\ UNCHANGED <<child, reaped>>
              ELSE IF caught_by_except_JSONDecodeError(o.exc)
              THEN UNCHANGED <<stream_out, stream_pc, child, reaped>>
              ELSE IF caught_by_except_Exception(o.exc)
              THEN /\ child' = kill(child)
                   /\ reaped' = TRUE
                   /\ stream_out' = Append(stream_out, done_record(o.count))
                   /\ stream_pc' = "at_done"
              ELSE /\ stream_pc' = "aborted"
                   /\ UNCHANGED <<stream_out, child, reaped>>
    /\ UNCHANGED <<inputs, engine_out, closure_vars, batch_vars, stream_resp>>
    /\ UNCHANGED fn_vars_all

\* end of process.stdout: process.wait() of line 389, then the done yield
read_eof ==
    /\ stream_pc = "reading"
    /\ pos = Len(engine_out)
    /\ child = "exited"
    /\ reaped' = TRUE
    /\ stream_out' = Append(stream_out, done_record(matches_count))
    /\ stream_pc' = "at_done"
    /\ UNCHANGED <<inputs, engine_out, closure_vars, batch_vars, stream_resp,
                   pos, matches_count, child>>
    /\ UNCHANGED fn_vars_all

\* next() after a match or context record: back into the for loop
resume ==
    /\ stream_pc = "at_record"
    /\ stream_pc' = "reading"
    /\ UNCHANGED <<inputs, engine_out, closure_vars, batch_vars, stream_out,
                   stream_resp, pos, matches_count, child, reaped>>
    /\ UNCHANGED fn_vars_all

\* next() after the done record: the generator returns
finish ==
    /\ stream_pc = "at_done"
    /\ stream_pc' = "finished"
    /\ UNCHANGED <<inputs, engine_out, closure_vars, batch_vars, stream_out,
                   stream_resp, pos, matches_count, child, reaped>>
    /\ UNCHANGED fn_vars_all

\* the consumer disconnects: the generator is closed where it is suspended
\* and GeneratorExit is raised at that yield.  Only the yields of lines 355
\* and 373 are inside the try of line 345, whose handler is except Exception.
cancel ==
    /\ stream_pc \in {"created", "at_preview", "at_record", "at_done"}
    /\ stream_pc' = "cancelled"
    /\ IF stream_pc = "at_record" /\ caught_by_except_Exception("GeneratorExit")
       THEN child' = kill(child) /\ reaped' = TRUE
       ELSE UNCHANGED <<child, reaped>>
    /\ UNCHANGED <<inputs, engine_out, closure_vars, batch_vars, stream_out,
                   stream_resp, pos, matches_count>>
    /\ UNCHANGED fn_vars_all

Next ==
    \/ search
    \/ search_stream
    \/ yield_preview
    \/ spawn
    \/ child_exit
    \/ read_line
    \/ read_eof
    \/ resume
    \/ finish
    \/ cancel

Spec == Init /\ [][Next]_vars

-----------------------------------------------------------------------------
(* The pure functions on their own: the arguments are drawn in the initial *)
(* state and one action applies the function.                              *)

FnSessionIdle ==
    /\ endpoint = "/search"
    /\ request = [queries |-> <<Q_name>>, search_path |-> P_data, fold |-> TRUE,
                  context |-> 1]
    /\ spawn_ok = TRUE
    /\ SessionIdle

FoldAlphabet == {"a", "A", "b"}
FoldLines == SeqsUpTo(FoldAlphabet, MaxLineLen)
FoldVariationPool == {<<"a">>, <<"a", "b">>, <<"B", "a", "b">>, <<"b", "b">>}
FoldVariationLists == {S \in SUBSET FoldVariationPool : Cardinality(S) <= 2}

FoldInit ==
    /\ FnSessionIdle
    /\ fn_pc = "ready"
    /\ \E k \in 0..MaxFoldLen : fn_max = MaxFoldLen - k
    /\ fn_vars \in FoldVariationLists
    /\ fn_line \in FoldLines
    /\ fn_query = <<>>
    /\ fn_type = ""
    /\ fn_result = <<>>

call_fold_line ==
    /\ fn_pc = "ready"
    /\ fn_pc' = "called"
    /\ fn_result' = fold_line(fn_line, fn_vars, fn_max)
    /\ UNCHANGED <<fn_line, fn_vars, fn_max, fn_query, fn_type>>
    /\ UNCHANGED session_vars

FoldNext == call_fold_line

SpecFold == FoldInit /\ [][FoldNext]_vars

\* phone-shaped queries: 9 to MaxDigits digits, bare or with separators
PhoneDigitStrings ==
    UNION {[1..n -> {"4", "7"}] : n \in 9..MaxDigits}

dashed(d) ==
    SubSeq(d, 1, 3) \o <<"-">> \o SubSeq(d, 4, 6) \o <<"-">> \o SubSeq(d, 7, Len(d))

PhoneQueries == PhoneDigitStrings \cup {dashed(d) : d \in PhoneDigitStrings}

NameQueries ==
    {<<"a", "l">>,
     <<"a", "l", " ", "b", "o">>,
     <<" ", "a", "l", " ", " ", "b", ".", " ", "c", "y">>,
     <<"a", "l", " ", "b", "o", " ", "c", "y", " ", "d", "e">>,
     <<"a", "1", " ", "b", "o">>}

VariationTypes == {"phone", "email", "name", "generic"}

VarInit ==
    /\ FnSessionIdle
    /\ fn_pc = "ready"
    /\ fn_query \in PhoneQueries \cup NameQueries
    /\ fn_type \in VariationTypes
    /\ fn_line = <<>>
    /\ fn_vars = {}
    /\ fn_max = 0
    /\ fn_result = {}

call_generate_variations ==
    /\ fn_pc = "ready"
    /\ fn_pc' = "called"
    /\ fn_result' = generate_variations(fn_query, fn_type)
    /\ UNCHANGED <<fn_line, fn_vars, fn_max, fn_query, fn_type>>
    /\ UNCHANGED session_vars

VarNext == call_generate_variations

SpecVar == VarInit /\ [][VarNext]_vars

-----------------------------------------------------------------------------
(* Vocabulary of the properties.                                           *)

\* the stream was read to its end: the generator returned, or it raised
StreamEnded == stream_pc \in {"finished", "aborted"}

IsResult(r) == r.event \in {"match", "context"}

\* the positions of stream_out holding a record of the given event
EventsAt(ev) == {i \in 1..Len(stream_out) : stream_out[i].event = ev}

\* the number of match records among the first n records of stream_out
MatchesUpTo(n) == Cardinality({i \in 1..n : stream_out[i].event = "match"})

\* a match or context event carrying its path, line number and text
WellFormedEvent(line) ==
    /\ line.json
    /\ "type" \in line.keys
    /\ line.type \in {"match", "context"}
    /\ {"text", "path", "line_number"} \subseteq line.keys

\* a line that does not parse as a structured event: not JSON, or JSON
\* lacking the event kind, or a match/context lacking path, number or text
FailsToParse(line) ==
    \/ ~line.json
    \/ "type" \notin line.keys
    \/ /\ line.type \in {"match", "context"}
       /\ ~({"text", "path", "line_number"} \subseteq line.keys)

\* the NormalizedMatch a stream record carries
AsMatch(r) == [line_number |-> r.line_number, content |-> r.content,
               is_match |-> r.is_match, file_path |-> r.file_path]

\* the match/context records of stream_out, in order, as NormalizedMatches
RECURSIVE StreamMatches(_)
StreamMatches(out) ==
    IF Len(out) = 0 THEN <<>>
    ELSE (IF IsResult(out[1]) THEN <<AsMatch(out[1])>> ELSE <<>>)
         \o StreamMatches(Tail(out))

\* the path of the request is one that path validation is to reject
PathToReject ==
    LET resolved == resolve(request.search_path)
    IN  \/ ~exists(resolved)
        \/ \E i \in 1..Len(blocked_prefixes) :
              \/ resolved = blocked_prefixes[i]
              \/ StartsWith(resolved, blocked_prefixes[i] \o <<"/">>)

-----------------------------------------------------------------------------
(* C1: a streaming session read to its end emitted exactly one preview     *)
(* record first, then the match/context records in the order of the engine *)
(* lines that produced them, then exactly one done record last.            *)
StreamIsPreviewResultsDone ==
    (endpoint = "/search/stream" /\ StreamEnded) =>
        /\ Len(stream_out) >= 2
        /\ EventsAt("preview") = {1}
        /\ EventsAt("done") = {Len(stream_out)}
        /\ \A i \in 2..(Len(stream_out) - 1) : IsResult(stream_out[i])
        /\ \A i, j \in 2..(Len(stream_out) - 1) :
              i < j => stream_out[i].line_index < stream_out[j].line_index

\* the same, for the sessions in which the engine was launched: this part
\* of C1 holds
StreamShapeOnceLaunched ==
    (endpoint = "/search/stream" /\ StreamEnded /\ child # "none") =>
        /\ Len(stream_out) >= 2
        /\ EventsAt("preview") = {1}
        /\ EventsAt("done") = {Len(stream_out)}
        /\ \A i \in 2..(Len(stream_out) - 1) : IsResult(stream_out[i])
        /\ \A i, j \in 2..(Len(stream_out) - 1) :
              i < j => stream_out[i].line_index < stream_out[j].line_index

(* C2: a streaming session cancelled after the child was spawned has       *)
(* terminated the child and waited for it.                                 *)
CancelTerminatesAndReapsChild ==
    (stream_pc = "cancelled" /\ child # "none") =>
        (child # "running" /\ reaped)

(* C3: when launching the engine fails in a streaming session, no record   *)
(* has been emitted: a spawn failure never yields a partial stream.        *)
SpawnFailureEmitsNothing ==
    (endpoint = "/search/stream" /\ ~spawn_ok /\ stream_pc = "aborted") =>
        stream_out = <<>>

(* C4: a request whose path validation rejects fails, in batch and in      *)
(* streaming mode, with no preview record emitted and no child spawned.    *)
RejectedPathFailsEarly ==
    PathToReject =>
        /\ stream_out = <<>>
        /\ child = "none"
        /\ ~batch_spawned
        /\ stream_pc \in {"init", "rejected"}
        /\ stream_resp \in {0, 400, 403}
        /\ stream_pc = "rejected" => stream_resp \in {400, 403}
        /\ batch_pc = "responded" => batch_resp.status >= 400

\* C4's case: a rejected path has been answered by search_stream()
RejectedPathAnswered ==
    /\ PathToReject
    /\ stream_pc = "rejected"
    /\ stream_resp = 403

(* C5: every engine line that fails to parse is skipped: it produces no    *)
(* record and does not count, the request does not fail, and every         *)
(* well-formed match/context line, also a later one, is translated.        *)
UnparsableLinesAreSkipped ==
    /\ (endpoint = "/search/stream" /\ StreamEnded /\ child # "none") =>
          /\ stream_pc = "finished"
          /\ {stream_out[i].line_index : i \in EventsAt("match") \cup EventsAt("context")}
             = {i \in 1..Len(engine_out) : WellFormedEvent(engine_out[i])}
          /\ \A i \in EventsAt("done") :
                stream_out[i].total_matches
                = Cardinality({k \in 1..Len(engine_out) :
                                  /\ WellFormedEvent(engine_out[k])
                                  /\ engine_out[k].type = "match"})
    /\ (batch_pc = "responded" /\ batch_spawned) =>
          /\ batch_resp.status = 200
          /\ Len(batch_resp.matches)
             = Cardinality({i \in 1..Len(engine_out) : WellFormedEvent(engine_out[i])})

\* the part of C5 that holds: lines that are not JSON are skipped
NonJsonLinesAreSkipped ==
    (\A k \in 1..Len(engine_out) : engine_out[k].json => ~FailsToParse(engine_out[k]))
        => UnparsableLinesAreSkipped

(* C6: total_matches of the done record, and of the batch response, is the *)
(* number of emitted is_match records, and the count of every streamed     *)
(* record is the number of match records emitted up to and including it.   *)
TotalMatchesCountsEmittedMatches ==
    /\ \A i \in 1..Len(stream_out) :
          IsResult(stream_out[i]) => stream_out[i].count = MatchesUpTo(i)
    /\ \A i \in EventsAt("done") :
          stream_out[i].total_matches = MatchesUpTo(Len(stream_out))
    /\ (batch_pc = "responded" /\ batch_resp.status = 200) =>
          batch_resp.total_matches
          = Cardinality({i \in 1..Len(batch_resp.matches) :
                            batch_resp.matches[i].is_match})

\* C6 on the engine outputs every line of which parses or is not JSON
CountsAgreeOnParsableOutput ==
    (\A k \in 1..Len(engine_out) : engine_out[k].json => ~FailsToParse(engine_out[k]))
        => TotalMatchesCountsEmittedMatches

(* C7: on the same request and the same engine output, search() returns    *)
(* the records search_stream() emits, in order, with the same              *)
(* total_matches, variations and rendered invocation.                      *)
BatchEqualsStream ==
    stream_pc = "finished" =>
        LET batch == search_response(request, spawn_ok, engine_out)
        IN  /\ batch.status = 200
            /\ batch.matches = StreamMatches(stream_out)
            /\ \A i \in EventsAt("done") :
                  /\ batch.total_matches = stream_out[i].total_matches
                  /\ batch.variations = stream_out[i].variations
                  /\ batch.command_executed = stream_out[i].command_executed

\* C7 on the engine outputs every line of which parses or is not JSON
ModesAgreeOnParsableOutput ==
    (\A k \in 1..Len(engine_out) : engine_out[k].json => ~FailsToParse(engine_out[k]))
        => BatchEqualsStream

(* C8: if a variation occurs in the line (case-insensitively), the result  *)
(* of fold_line contains it in full.                                       *)
FoldKeepsEveryVariation ==
    fn_pc = "called" =>
        \A v \in fn_vars :
            Contains(Lower(fn_line), Lower(v)) => Contains(Lower(fn_result), Lower(v))

(* C9: for a phone query with at least 10 digits, generate_variations      *)
(* returns the original text and the six renderings of the first 10        *)
(* digits, and no variant other than the original holds a later digit.     *)
PhoneVariantsUseFirstTenDigits ==
    (fn_pc = "called" /\ fn_type = "phone" /\ Len(OnlyDigits(fn_query)) >= 10) =>
        LET d == SubSeq(OnlyDigits(fn_query), 1, 10)
            a == SubSeq(d, 1, 3)
            b == SubSeq(d, 4, 6)
            c == SubSeq(d, 7, 10)
        IN  /\ fn_query \in fn_result
            /\ {a \o <<"-">> \o b \o <<"-">> \o c,
                d,
                <<"(">> \o a \o <<")">> \o b \o <<"-">> \o c,
                <<"(">> \o a \o <<")", " ">> \o b \o <<"-">> \o c,
                a \o <<".">> \o b \o <<".">> \o c,
                a \o <<" ">> \o b \o <<"-">> \o c} \subseteq fn_result
            /\ \A v \in fn_result \ {fn_query} : OnlyDigits(v) = d

\* C9 for the queries of exactly 10 digits: this part holds
TenDigitPhoneVariants ==
    Len(OnlyDigits(fn_query)) = 10 => PhoneVariantsUseFirstTenDigits

(* C10: fold_line returns at most max_len + 6 characters, and the line     *)
(* itself whenever the line is no longer than max_len.                     *)
FoldLengthIsBounded ==
    fn_pc = "called" =>
        /\ Len(fn_result) <= fn_max + 6
        /\ Len(fn_line) <= fn_max => fn_result = fn_line

\* C10's case: a folded line cut at both ends, at the bound
FoldedAtBothEnds ==
    /\ fn_pc = "called"
    /\ Len(fn_line) > fn_max
    /\ Len(fn_result) = fn_max + 6

====
